---- MODULE Spec2Model ----
(***************************************************************************)
(* Model of src/src/main.rs: the two lazily resolved endpoint statics      *)
(* (NODE_URL, FAUCET_URL) and the linear async workflow of main, run       *)
(* against an abstract faucet / node service holding integer balances.     *)
(*                                                                         *)
(* Strings that are parsed as URLs are sequences of tokens, so that        *)
(* Url::from_str can be modelled by what it does (scheme and host are      *)
(* lower-cased, an empty path becomes "/") and can fail.                   *)
(***************************************************************************)
EXTENDS Integers, Sequences, FiniteSets, TLC

VARIABLES
    env,          \* the process environment: variable name -> result of std::env::var
    NODE_URL,     \* Lazy<Url> cell of line 10
    FAUCET_URL,   \* Lazy<Url> cell of line 21
    pc,           \* index in Prog of the next statement of main
    inflight,     \* the awaited network call (a set holding at most its Prog index)
    calls,        \* history: Prog indices of the network calls issued, in order
    outcomes,     \* history: "ok" / "err" of the calls that returned, in order
    out,          \* stdout: the lines printed so far
    stderr,       \* the error reported when the process ends abnormally
    exit_code,    \* {} while running, then the set holding the exit status
    accounts,     \* local accounts generated so far (lines 40-41)
    alice_seq,    \* sequence number held in the LocalAccount alice
    tx_hash,      \* the binding tx_hash of lines 74 / 101 (0: not bound yet)
    onchain,      \* service: accounts that exist on chain
    balance,      \* service: balance of each account
    txs           \* service: submitted transfers, in submission order

vars == <<env, NODE_URL, FAUCET_URL, pc, inflight, calls, outcomes, out, stderr,
          exit_code, accounts, alice_seq, tx_hash, onchain, balance, txs>>

progVars == <<pc, inflight, calls, outcomes, out, stderr, exit_code, accounts,
              alice_seq, tx_hash>>
cfgVars == <<NODE_URL, FAUCET_URL>>
ledgerVars == <<onchain, balance, txs>>

-----------------------------------------------------------------------------
(* Bounds *)

\* Largest fee the ledger charges the sender of one transfer.
MaxFee == 2

-----------------------------------------------------------------------------
(* Program constants *)

FundAmount == 20000
TransferAmount == 1000
ExitOk == 0
ExitErr == 1
ExitPanic == 101

Names == {"Alice", "Bob"}

\* The default endpoint literals of lines 15 and 26.
DefaultNodeStr == <<"https", "://", "fullnode.devnet.aptoslabs.com">>
DefaultFaucetStr == <<"https", "://", "faucet.devnet.aptoslabs.com">>

-----------------------------------------------------------------------------
(* std::env::var and Url::from_str *)

\* Result<String, VarError> of std::env::var.
VarOk(s) == [tag |-> "Ok", s |-> s]
VarNotPresent == [tag |-> "NotPresent", s |-> <<>>]
VarNotUnicode == [tag |-> "NotUnicode", s |-> <<>>]

\* Values the two environment variables are drawn from.
EnvValues ==
    { VarNotPresent,
      VarNotUnicode,
      VarOk(<<"http", "://", "localhost:8080", "/">>),
      VarOk(<<"HTTPS", "://", "Faucet.Example", "/v1">>),
      VarOk(<<"HTTP", "://", "LocalHost:8081">>),
      VarOk(<<"not a url">>),
      VarOk(<<>>) }

Lower(t) ==
    CASE t = "HTTPS" -> "https"
      [] t = "HTTP" -> "http"
      [] t = "Faucet.Example" -> "faucet.example"
      [] t = "LocalHost:8081" -> "localhost:8081"
      [] OTHER -> t

IsScheme(t) == Lower(t) \in {"http", "https"}

\* Url::from_str: Err on anything that is not scheme "://" host [path];
\* Ok with the scheme and host lower-cased and an empty path replaced by "/".
UrlFromStr(s) ==
    IF Len(s) >= 3 /\ IsScheme(s[1]) /\ s[2] = "://"
    THEN [ok |-> TRUE,
          url |-> <<Lower(s[1]), "://", Lower(s[3])>>
                  \o (IF Len(s) = 3 THEN <<"/">> ELSE SubSeq(s, 4, Len(s)))]
    ELSE [ok |-> FALSE, url |-> <<>>]

\* .as_ref().map(|s| s.as_str()).unwrap_or(default), lines 12-15 and 23-26:
\* the variable's string when std::env::var is Ok, the default for ANY Err.
UnwrapOr(v, default) == IF v.tag = "Ok" THEN v.s ELSE default

Uninit == [init |-> FALSE, url |-> <<>>]
Resolved(u) == [init |-> TRUE, url |-> u]

\* Mutant: both statics read APTOS_NODE_URL.
EnvVarOfFaucetReadsNode(cell) == "APTOS_NODE_URL"

\* The environment variable each static reads (lines 12, 23).
EnvVarOf(cell) == IF cell = "NODE_URL" THEN "APTOS_NODE_URL" ELSE "APTOS_FAUCET_URL"

DefaultOf(cell) == IF cell = "NODE_URL" THEN DefaultNodeStr ELSE DefaultFaucetStr

\* The closure of a static: lines 10-18 and 21-29, before the final unwrap.
Closure(cell) == UrlFromStr(UnwrapOr(env[EnvVarOf(cell)], DefaultOf(cell)))

Cell(cell) == IF cell = "NODE_URL" THEN NODE_URL ELSE FAUCET_URL

-----------------------------------------------------------------------------
(* The statements of main, in program order *)

NoVal == 0 - 1

Instr(k, op, who, amount, ctx) ==
    [k |-> k, op |-> op, who |-> who, amount |-> amount, ctx |-> ctx]

Force(cell)      == Instr("force", cell, "", 0, "")
Generate(who)    == Instr("generate", "", who, 0, "")
Header(text)     == Instr("println", "header", text, 0, "")
PrintAddr(who)   == Instr("println", "addr", who, 0, "")
Call(op, who, amount, ctx) == Instr("call", op, who, amount, ctx)
ReturnOkUnit     == Instr("return", "", "", 0, "")

CtxFund     == "Failed to fund Alice"
CtxCreate   == "Failed to create onchain account for Bob"
CtxAlice    == "Could not fetch Alice's balance"
CtxBob      == "Could not fetch Bob's balance"
CtxTransfer == "Failed to transfer coins from Alice to Bob"
CtxWait     == "Failed to wait for transaction"

\* Lines 34-45: client construction forces the statics, then the accounts.
Startup ==
    << Force("NODE_URL"),                 \* 34  Client::new(NODE_URL.clone())
       Force("FAUCET_URL"),               \* 35  FaucetClient::new(FAUCET_URL.clone(),
       Force("NODE_URL"),                 \* 35                    NODE_URL.clone())
       Generate("Alice"),                 \* 40
       Generate("Bob"),                   \* 41
       Header("Local Accounts"),          \* 43
       PrintAddr("Alice"),                \* 44
       PrintAddr("Bob") >>                \* 45

\* Mutant: the funding amount mistyped as 2_000.
FundingMistyped ==
    << Call("fund", "Alice", 2000, CtxFund),
       Call("create_account", "Bob", 0, CtxCreate) >>

\* Lines 47-55.
Funding ==
    << Call("fund", "Alice", FundAmount, CtxFund),          \* 48-51
       Call("create_account", "Bob", 0, CtxCreate) >>       \* 52-55

\* Mutant: the section header printed after the two queries.
BalancesHeaderLast(title) ==
    << Call("get_account_balance", "Alice", 0, CtxAlice),
       Call("get_account_balance", "Bob", 0, CtxBob),
       Header(title) >>

\* A balance section: lines 57-71, 84-98, 111-125.
Balances(title) ==
    << Header(title),
       Call("get_account_balance", "Alice", 0, CtxAlice),
       Call("get_account_balance", "Bob", 0, CtxBob) >>

\* Mutant: the transfer without its finality wait.
TransferNoWait ==
    << Call("transfer", "Alice", TransferAmount, CtxTransfer) >>

\* A transfer and its finality wait: lines 74-82 and 101-109.
TransferAndWait ==
    << Call("transfer", "Alice", TransferAmount, CtxTransfer),
       Call("wait_for_transaction", "", 0, CtxWait) >>

\* Mutant: the Intermediate and Final sections in each other's place.
ProgSectionsSwapped ==
    Startup \o Funding
    \o Balances("Initial balances")
    \o TransferAndWait
    \o Balances("Final balances")
    \o TransferAndWait
    \o Balances("Intermediate balances")
    \o << ReturnOkUnit >>

Prog ==
    Startup \o Funding
    \o Balances("Initial balances")
    \o TransferAndWait
    \o Balances("Intermediate balances")
    \o TransferAndWait
    \o Balances("Final balances")
    \o << ReturnOkUnit >>                                   \* 127

Cur == Prog[pc]
running == exit_code = {}
At(k) == running /\ inflight = {} /\ pc \in 1..Len(Prog) /\ Cur.k = k

CallSteps == { i \in 1..Len(Prog) : Prog[i].k = "call" }

Line(kind, who, val) == [kind |-> kind, who |-> who, val |-> val]

-----------------------------------------------------------------------------
(* Initial state *)

Init ==
    /\ env \in [{"APTOS_NODE_URL", "APTOS_FAUCET_URL"} -> EnvValues]
    /\ NODE_URL = Uninit
    /\ FAUCET_URL = Uninit
    /\ pc = 1
    /\ inflight = {}
    /\ calls = <<>>
    /\ outcomes = <<>>
    /\ out = <<>>
    /\ stderr = <<>>
    /\ exit_code = {}
    /\ accounts = {}
    /\ alice_seq = 0
    /\ tx_hash = 0
    /\ onchain = {}
    /\ balance = [n \in Names |-> 0]
    /\ txs = <<>>

-----------------------------------------------------------------------------
(* Startup: forcing the statics, generating the accounts, printing *)

\* Lazy::force on a cell that is initialised: the stored value is reused.
ForceInitialised ==
    /\ At("force")
    /\ Cell(Cur.op).init
    /\ pc' = pc + 1
    /\ UNCHANGED <<env, cfgVars, inflight, calls, outcomes, out, stderr, exit_code,
                   accounts, alice_seq, tx_hash, ledgerVars>>

\* Lazy::force on an uninitialised cell whose closure yields a Url.
ForceResolve ==
    /\ At("force")
    /\ ~Cell(Cur.op).init
    /\ Closure(Cur.op).ok
    /\ IF Cur.op = "NODE_URL"
       THEN NODE_URL' = Resolved(Closure(Cur.op).url) /\ UNCHANGED FAUCET_URL
       ELSE FAUCET_URL' = Resolved(Closure(Cur.op).url) /\ UNCHANGED NODE_URL
    /\ pc' = pc + 1
    /\ UNCHANGED <<env, inflight, calls, outcomes, out, stderr, exit_code,
                   accounts, alice_seq, tx_hash, ledgerVars>>

\* Lazy::force on an uninitialised cell whose closure panics in .unwrap()
\* (lines 17, 28): the process aborts with the panic exit status.
ForcePanic ==
    /\ At("force")
    /\ ~Cell(Cur.op).init
    /\ ~Closure(Cur.op).ok
    /\ exit_code' = {ExitPanic}
    /\ stderr' = <<[kind |-> "panic", msg |-> Cur.op]>>
    /\ UNCHANGED <<env, cfgVars, pc, inflight, calls, outcomes, out,
                   accounts, alice_seq, tx_hash, ledgerVars>>

\* LocalAccount::generate, lines 40-41.
GenerateAccount ==
    /\ At("generate")
    /\ accounts' = accounts \cup {Cur.who}
    /\ pc' = pc + 1
    /\ UNCHANGED <<env, cfgVars, inflight, calls, outcomes, out, stderr, exit_code,
                   alice_seq, tx_hash, ledgerVars>>

\* println! of a header or of an address line.
Println ==
    /\ At("println")
    /\ out' = Append(out, Line(Cur.op, Cur.who, NoVal))
    /\ pc' = pc + 1
    /\ UNCHANGED <<env, cfgVars, inflight, calls, outcomes, stderr, exit_code,
                   accounts, alice_seq, tx_hash, ledgerVars>>

-----------------------------------------------------------------------------
(* Network calls: issue, then suspend until the service answers *)

Awaiting(op) == running /\ inflight = {pc} /\ Cur.op = op

\* The call expression before .await: the request is issued and main suspends.
IssueCall ==
    /\ At("call")
    /\ inflight' = {pc}
    /\ calls' = Append(calls, pc)
    /\ UNCHANGED <<env, cfgVars, pc, outcomes, out, stderr, exit_code,
                   accounts, alice_seq, tx_hash, ledgerVars>>

\* Mutant: the error of a failed call is dropped and main goes on.
CallErrSwallowed ==
    /\ running /\ inflight = {pc}
    /\ inflight' = {}
    /\ outcomes' = Append(outcomes, "err")
    /\ pc' = pc + 1
    /\ UNCHANGED <<env, cfgVars, calls, out, stderr, exit_code, accounts,
                   alice_seq, tx_hash, ledgerVars>>

\* Mutant: the error is reported but the process exits with status 0.
CallErrExitsZero ==
    /\ running /\ inflight = {pc}
    /\ inflight' = {}
    /\ outcomes' = Append(outcomes, "err")
    /\ stderr' = <<[kind |-> "error", msg |-> Cur.ctx]>>
    /\ exit_code' = {ExitOk}
    /\ UNCHANGED <<env, cfgVars, pc, calls, out, accounts, alice_seq, tx_hash,
                   ledgerVars>>

\* Mutant: a failed call is issued again.
CallErrRetry ==
    /\ running /\ inflight = {pc}
    /\ inflight' = {}
    /\ outcomes' = Append(outcomes, "err")
    /\ UNCHANGED <<env, cfgVars, pc, calls, out, stderr, exit_code, accounts,
                   alice_seq, tx_hash, ledgerVars>>

\* Any awaited call returns Err: .context(msg)? returns from main (exit status 1,
\* the error printed by the runtime). A transfer that fails may or may not have
\* signed, and so advanced alice's sequence number, before failing.
CallErr ==
    /\ running /\ inflight = {pc}
    /\ inflight' = {}
    /\ outcomes' = Append(outcomes, "err")
    /\ stderr' = <<[kind |-> "error", msg |-> Cur.ctx]>>
    /\ exit_code' = {ExitErr}
    /\ IF Cur.op = "transfer"
       THEN alice_seq' \in {alice_seq, alice_seq + 1}
       ELSE alice_seq' = alice_seq
    /\ UNCHANGED <<env, cfgVars, pc, calls, out, accounts, tx_hash, ledgerVars>>

\* faucet_client.fund(alice.address(), 20_000) returns Ok, lines 48-51.
FundOk ==
    /\ Awaiting("fund")
    /\ onchain' = onchain \cup {Cur.who}
    /\ balance' = [balance EXCEPT ![Cur.who] = @ + Cur.amount]
    /\ inflight' = {}
    /\ outcomes' = Append(outcomes, "ok")
    /\ pc' = pc + 1
    /\ UNCHANGED <<env, cfgVars, calls, out, stderr, exit_code, accounts,
                   alice_seq, tx_hash, txs>>

\* faucet_client.create_account(bob.address()) returns Ok, lines 52-55.
CreateAccountOk ==
    /\ Awaiting("create_account")
    /\ onchain' = onchain \cup {Cur.who}
    /\ inflight' = {}
    /\ outcomes' = Append(outcomes, "ok")
    /\ pc' = pc + 1
    /\ UNCHANGED <<env, cfgVars, calls, out, stderr, exit_code, accounts,
                   alice_seq, tx_hash, balance, txs>>

\* coin_client.get_account_balance(..) returns Ok(b); the enclosing println!
\* then prints the line (lines 58-71, 85-98, 112-125).
BalanceOk ==
    /\ Awaiting("get_account_balance")
    /\ Cur.who \in onchain
    /\ out' = Append(out, Line("balance", Cur.who, balance[Cur.who]))
    /\ inflight' = {}
    /\ outcomes' = Append(outcomes, "ok")
    /\ pc' = pc + 1
    /\ UNCHANGED <<env, cfgVars, calls, stderr, exit_code, accounts,
                   alice_seq, tx_hash, ledgerVars>>

\* coin_client.transfer(&mut alice, bob.address(), 1000, None) returns Ok:
\* the signed transaction is pending at the node, alice's sequence number has
\* advanced, tx_hash is bound to the pending transaction (lines 74-77, 101-104).
TransferOk ==
    /\ Awaiting("transfer")
    /\ \E fee \in 0..MaxFee :
         txs' = Append(txs, [from |-> Cur.who, to |-> "Bob", amount |-> Cur.amount,
                             fee |-> fee, seq |-> alice_seq, state |-> "pending"])
    /\ alice_seq' = alice_seq + 1
    /\ tx_hash' = Len(txs) + 1
    /\ inflight' = {}
    /\ outcomes' = Append(outcomes, "ok")
    /\ pc' = pc + 1
    /\ UNCHANGED <<env, cfgVars, calls, out, stderr, exit_code, accounts,
                   onchain, balance>>

\* rest_client.wait_for_transaction(&tx_hash) returns Ok: only once the
\* transaction is committed (lines 79-82, 106-109).
WaitOk ==
    /\ Awaiting("wait_for_transaction")
    /\ tx_hash \in 1..Len(txs)
    /\ txs[tx_hash].state = "committed"
    /\ inflight' = {}
    /\ outcomes' = Append(outcomes, "ok")
    /\ pc' = pc + 1
    /\ UNCHANGED <<env, cfgVars, calls, out, stderr, exit_code, accounts,
                   alice_seq, tx_hash, ledgerVars>>

\* Ok(()) of line 127: main returns, the process exits with status 0.
ReturnOk ==
    /\ At("return")
    /\ exit_code' = {ExitOk}
    /\ UNCHANGED <<env, cfgVars, pc, inflight, calls, outcomes, out, stderr,
                   accounts, alice_seq, tx_hash, ledgerVars>>

-----------------------------------------------------------------------------
(* The ledger *)

\* The network commits the oldest pending transfer: the sender pays the amount
\* and the fee, the receiver gets the amount.
Commit ==
    /\ \E i \in 1..Len(txs) :
         /\ txs[i].state = "pending"
         /\ \A j \in 1..(i - 1) : txs[j].state = "committed"
         /\ balance[txs[i].from] >= txs[i].amount + txs[i].fee
         /\ balance' = [balance EXCEPT
                          ![txs[i].from] = @ - txs[i].amount - txs[i].fee,
                          ![txs[i].to] = @ + txs[i].amount]
         /\ txs' = [txs EXCEPT ![i].state = "committed"]
    /\ UNCHANGED <<env, cfgVars, progVars, onchain>>

-----------------------------------------------------------------------------

Next ==
    \/ ForceInitialised
    \/ ForceResolve
    \/ ForcePanic
    \/ GenerateAccount
    \/ Println
    \/ IssueCall
    \/ CallErr
    \/ FundOk
    \/ CreateAccountOk
    \/ BalanceOk
    \/ TransferOk
    \/ WaitOk
    \/ ReturnOk
    \/ Commit

Spec == Init /\ [][Next]_vars

\* Every awaited call eventually returns (the SDK's calls time out), and the
\* runtime keeps polling main.
FairSpec == Spec /\ WF_vars(Next)

-----------------------------------------------------------------------------
(* Vocabulary of the properties *)

Terminated == exit_code # {}
IsPrefix(a, b) == Len(a) <= Len(b) /\ a = SubSeq(b, 1, Len(a))
IsHeader(l) == l.kind = "header"
IsBalance(l) == l.kind = "balance"
HeadersOf(o) == [i \in 1..Len(SelectSeq(o, IsHeader)) |-> SelectSeq(o, IsHeader)[i].who]
BalanceLines == SelectSeq(out, IsBalance)
OpsOf(cs) == [i \in 1..Len(cs) |-> <<Prog[cs[i]].op, Prog[cs[i]].who>>]
NoDuplicates(q) == \A i, j \in 1..Len(q) : i # j => q[i] # q[j]
SomeErr == \E i \in 1..Len(outcomes) : outcomes[i] = "err"
AllOk == \A i \in 1..Len(outcomes) : outcomes[i] = "ok"
FirstErr == CHOOSE i \in 1..Len(outcomes) :
                outcomes[i] = "err" /\ \A j \in 1..(i - 1) : outcomes[j] = "ok"

FourHeaders ==
    <<"Local Accounts", "Initial balances", "Intermediate balances", "Final balances">>

\* The twelve network calls of a run in which nothing fails.
ExpectedCalls ==
    << <<"fund", "Alice">>, <<"create_account", "Bob">>,
       <<"get_account_balance", "Alice">>, <<"get_account_balance", "Bob">>,
       <<"transfer", "Alice">>, <<"wait_for_transaction", "">>,
       <<"get_account_balance", "Alice">>, <<"get_account_balance", "Bob">>,
       <<"transfer", "Alice">>, <<"wait_for_transaction", "">>,
       <<"get_account_balance", "Alice">>, <<"get_account_balance", "Bob">> >>

LastCallOp == OpsOf(calls)[Len(calls)][1]
CountOp(op) == Cardinality({i \in 1..Len(calls) : Prog[calls[i]].op = op})

\* The override strings of EnvValues that are URLs, and the URL each denotes.
ValidOverrides ==
    { VarOk(<<"http", "://", "localhost:8080", "/">>),
      VarOk(<<"HTTPS", "://", "Faucet.Example", "/v1">>),
      VarOk(<<"HTTP", "://", "LocalHost:8081">>) }
DenotedUrl(v) ==
    CASE v = VarOk(<<"http", "://", "localhost:8080", "/">>) ->
             <<"http", "://", "localhost:8080", "/">>
      [] v = VarOk(<<"HTTPS", "://", "Faucet.Example", "/v1">>) ->
             <<"https", "://", "faucet.example", "/v1">>
      [] v = VarOk(<<"HTTP", "://", "LocalHost:8081">>) ->
             <<"http", "://", "localhost:8081", "/">>
      [] OTHER -> <<>>
DefaultNodeUrl == <<"https", "://", "fullnode.devnet.aptoslabs.com", "/">>
DefaultFaucetUrl == <<"https", "://", "faucet.devnet.aptoslabs.com", "/">>
SetButNoUrl(v) == v # VarNotPresent /\ v \notin ValidOverrides

-----------------------------------------------------------------------------
(* C1 *)

\* C1: the workflow is fail-stop. Once a call has returned an error no further
\* call is issued, no further line is printed and main does not advance; if
\* funding Alice failed, the fund request is the only call ever issued; if the
\* second transfer failed, the Intermediate section is complete on stdout and
\* the Final header is absent.
C1_AfterErrorNothingRuns ==
    SomeErr => /\ calls' = calls
               /\ out' = out
               /\ pc' = pc
               /\ inflight' = inflight
               /\ outcomes' = outcomes
C1_FundFailure ==
    (SomeErr /\ OpsOf(calls)[FirstErr] = <<"fund", "Alice">>)
        => /\ OpsOf(calls) = << <<"fund", "Alice">> >>
           /\ CountOp("create_account") = 0
           /\ CountOp("transfer") = 0
C1_SecondTransferFailure ==
    (SomeErr /\ LastCallOp = "transfer" /\ CountOp("transfer") = 2)
        => /\ HeadersOf(out) = SubSeq(FourHeaders, 1, 3)
           /\ Len(BalanceLines) = 4
           /\ out[Len(out)] = [kind |-> "balance", who |-> "Bob",
                               val |-> BalanceLines[4].val]
\* C1: fail-stop, the three parts above: in every state and at every step.
C1_FailStop ==
    /\ [](C1_FundFailure /\ C1_SecondTransferFailure)
    /\ [][C1_AfterErrorNothingRuns]_vars

\* A run whose second transfer failed after the Intermediate section.
C1_Witness ==
    /\ Terminated /\ SomeErr
    /\ LastCallOp = "transfer" /\ CountOp("transfer") = 2
    /\ Len(BalanceLines) = 4

-----------------------------------------------------------------------------
(* C2 *)

\* C2: the process exits with status 0 only if all twelve calls were issued and
\* succeeded; every other run ends with a non-zero status, and when a step
\* failed the reported error is the context message of the first failing step.
\* Every run terminates.
C2_ExitStatus ==
    Terminated =>
        /\ exit_code = {ExitOk} <=>
               (OpsOf(calls) = ExpectedCalls /\ Len(outcomes) = 12 /\ AllOk)
        /\ exit_code # {ExitOk} =>
               /\ 0 \notin exit_code
               /\ SomeErr => stderr = <<[kind |-> "error",
                                         msg |-> Prog[calls[FirstErr]].ctx]>>
               /\ ~SomeErr => (exit_code = {ExitPanic} /\ stderr[1].kind = "panic")
\* C2: the exit status is as above in every finished run, and every run finishes.
C2_ExitCode == []C2_ExitStatus /\ <>Terminated

\* A run that exits with status 0.
C2_Witness == exit_code = {ExitOk} /\ Len(outcomes) = 12

-----------------------------------------------------------------------------
(* C3 *)

\* C3: each static resolves to the URL its own environment variable holds when
\* that is a valid URL, and to its own default when the variable is absent; the
\* two are resolved independently and a resolved value never changes.
C3_ResolvedValue ==
    /\ NODE_URL.init =>
         /\ env["APTOS_NODE_URL"] \in ValidOverrides =>
                NODE_URL.url = DenotedUrl(env["APTOS_NODE_URL"])
         /\ env["APTOS_NODE_URL"] = VarNotPresent => NODE_URL.url = DefaultNodeUrl
    /\ FAUCET_URL.init =>
         /\ env["APTOS_FAUCET_URL"] \in ValidOverrides =>
                FAUCET_URL.url = DenotedUrl(env["APTOS_FAUCET_URL"])
         /\ env["APTOS_FAUCET_URL"] = VarNotPresent => FAUCET_URL.url = DefaultFaucetUrl
C3_Immutable ==
    /\ NODE_URL.init => NODE_URL' = NODE_URL
    /\ FAUCET_URL.init => FAUCET_URL' = FAUCET_URL
\* C3: resolved values are as above in every state and no step changes one.
C3_Endpoints == []C3_ResolvedValue /\ [][C3_Immutable]_vars

\* Node overridden by a non-normalised URL string, faucet left to its default,
\* both resolved and main past client construction.
C3_Witness ==
    /\ env["APTOS_NODE_URL"] = VarOk(<<"HTTP", "://", "LocalHost:8081">>)
    /\ env["APTOS_FAUCET_URL"] = VarNotPresent
    /\ NODE_URL.init /\ FAUCET_URL.init
    /\ Len(calls) > 0

-----------------------------------------------------------------------------
(* C4 *)

\* C4: if either variable is set to something that is not a valid URL, the
\* process fails at startup: the static never takes a value (no fall back to
\* the default), no network call is issued, and the only exit is the panic.
C4_InvalidUrlIsFatal ==
    /\ SetButNoUrl(env["APTOS_NODE_URL"]) => ~NODE_URL.init
    /\ SetButNoUrl(env["APTOS_FAUCET_URL"]) => ~FAUCET_URL.init
    /\ (SetButNoUrl(env["APTOS_NODE_URL"]) \/ SetButNoUrl(env["APTOS_FAUCET_URL"]))
           => (calls = <<>> /\ exit_code \subseteq {ExitPanic})

\* C4, restricted to values std::env::var returns as a String: those do abort
\* the process before any network call.
C4_InvalidUnicodeIsFatal ==
    LET bad(v) == v.tag = "Ok" /\ v \notin ValidOverrides
    IN  /\ bad(env["APTOS_NODE_URL"]) => ~NODE_URL.init
        /\ bad(env["APTOS_FAUCET_URL"]) => ~FAUCET_URL.init
        /\ (bad(env["APTOS_NODE_URL"]) \/ bad(env["APTOS_FAUCET_URL"]))
               => (calls = <<>> /\ out = <<>> /\ exit_code \subseteq {ExitPanic})

-----------------------------------------------------------------------------
(* C5 *)

FaucetSucceeded == Len(outcomes) >= 2 /\ outcomes[1] = "ok" /\ outcomes[2] = "ok"

\* C5 as stated: whenever both faucet requests succeeded, the finished run has
\* printed exactly the four section headers, each once, in the fixed order.
C5_FaucetOkFourHeaders ==
    (Terminated /\ FaucetSucceeded) => HeadersOf(out) = FourHeaders

\* C5 amended: a finished run in which every step succeeded (the faucet requests
\* and all later calls) has printed exactly the four headers, each once, in the
\* fixed order; with only the faucet succeeding, the headers printed are a
\* prefix of those four that holds at least Local Accounts and Initial balances.
C5_AllOkFourHeaders ==
    /\ IsPrefix(HeadersOf(out), FourHeaders)
    /\ (Terminated /\ FaucetSucceeded) => Len(HeadersOf(out)) >= 2
    /\ (Terminated /\ Len(outcomes) = 12 /\ AllOk) => HeadersOf(out) = FourHeaders

\* A finished run, all steps successful, four headers on stdout.
C5_Witness ==
    exit_code = {ExitOk} /\ Len(HeadersOf(out)) = 4 /\ Len(outcomes) = 12 /\ AllOk

-----------------------------------------------------------------------------
(* C6 *)

\* C6: the balances printed are, in order: Alice 20,000 and Bob 0 (Initial);
\* Alice 20,000 - 1,000 - fee1 and Bob 1,000 (Intermediate); Alice
\* 20,000 - 2,000 - fee1 - fee2 and Bob 2,000 (Final), fee1 and fee2 being the
\* fees the ledger charged for the first and the second transfer.
C6_ReportedBalances ==
    LET b == BalanceLines
        n == Len(b)
    IN  /\ n >= 1 => b[1] = Line("balance", "Alice", 20000)
        /\ n >= 2 => b[2] = Line("balance", "Bob", 0)
        /\ n >= 3 => b[3] = Line("balance", "Alice", 20000 - 1000 - txs[1].fee)
        /\ n >= 4 => b[4] = Line("balance", "Bob", 0 + 1000)
        /\ n >= 5 => b[5] = Line("balance", "Alice",
                                 20000 - 2000 - txs[1].fee - txs[2].fee)
        /\ n >= 6 => b[6] = Line("balance", "Bob", 0 + 2000)
        /\ n <= 6

\* A successful run with two different positive fees and all six lines printed.
C6_Witness ==
    /\ exit_code = {ExitOk}
    /\ Len(BalanceLines) = 6
    /\ Len(txs) = 2 /\ txs[1].fee = 1 /\ txs[2].fee = 2

-----------------------------------------------------------------------------
(* C7 *)

\* C7: the context message reported on failure determines the failing step: no
\* other call of the workflow carries the same message.
C7_MessageIdentifiesStep ==
    (Terminated /\ SomeErr) =>
        \A i \in CallSteps : Prog[i].ctx = stderr[1].msg => i = calls[FirstErr]

\* What the messages do determine: the operation and the account it acts on.
C7_MessageIdentifiesOperation ==
    (Terminated /\ SomeErr) =>
        \A i \in CallSteps :
            Prog[i].ctx = stderr[1].msg
                <=> (Prog[i].op = Prog[calls[FirstErr]].op
                     /\ Prog[i].who = Prog[calls[FirstErr]].who)

-----------------------------------------------------------------------------
(* C8 *)

Pending == {i \in 1..Len(txs) : txs[i].state = "pending"}

\* C8: at most one network call is outstanding; a call is issued only after
\* every earlier call has returned Ok; the second transfer is issued only after
\* wait-for-transaction on the first has returned Ok, so while a transfer is in
\* flight no earlier transfer of Alice is still uncommitted, and Alice's
\* sequence number advances by one per transfer.
C8_Sequential ==
    /\ Cardinality(inflight) <= 1
    /\ Len(calls) = Len(outcomes) + Cardinality(inflight)
    /\ \A i \in 1..(Len(calls) - 1) : outcomes[i] = "ok"
    /\ \A k, i \in 1..Len(calls) :
         (k < i /\ Prog[calls[k]].op = "transfer" /\ Prog[calls[i]].op = "transfer")
            => \E j \in (k + 1)..(i - 1) :
                   Prog[calls[j]].op = "wait_for_transaction" /\ outcomes[j] = "ok"
    /\ (inflight # {} /\ LastCallOp = "transfer") => Pending = {}
    /\ Cardinality(Pending) <= 1
    /\ \A i \in 1..Len(txs) : txs[i].seq = i - 1

\* The second transfer is in flight, the first one committed and waited for.
C8_Witness ==
    /\ inflight # {} /\ LastCallOp = "transfer" /\ CountOp("transfer") = 2
    /\ Len(txs) = 1 /\ txs[1].state = "committed"

-----------------------------------------------------------------------------
(* C9 *)

Failed == exit_code = {ExitErr}

\* C9 as stated: no call is issued twice; a successful run issues exactly the
\* twelve calls in order; a run in which a step failed issues a STRICT prefix of
\* them, ending with the failed call.
C9_StrictPrefix ==
    /\ NoDuplicates(calls)
    /\ exit_code = {ExitOk} => OpsOf(calls) = ExpectedCalls
    /\ Failed => /\ IsPrefix(OpsOf(calls), ExpectedCalls)
                 /\ Len(calls) < Len(ExpectedCalls)
                 /\ FirstErr = Len(calls)

\* C9 amended: no call is issued twice; a successful run issues exactly the
\* twelve calls in order; a run in which a step failed issues a non-empty prefix
\* of them ending with the failed call, strict unless the failed call is the
\* twelfth (the Final balance query for Bob), in which case all twelve were
\* issued; a run aborted at startup issues none.
C9_Prefix ==
    /\ NoDuplicates(calls)
    /\ IsPrefix(OpsOf(calls), ExpectedCalls)
    /\ exit_code = {ExitOk} => (OpsOf(calls) = ExpectedCalls /\ AllOk)
    /\ Failed => /\ Len(calls) >= 1
                 /\ FirstErr = Len(calls)
                 /\ Len(outcomes) = Len(calls)
    /\ exit_code = {ExitPanic} => calls = <<>>

\* The twelfth call failed: all twelve calls were issued in a failing run.
C9_Witness == Failed /\ Len(calls) = 12 /\ outcomes[12] = "err"

-----------------------------------------------------------------------------
(* C10 *)

IsBalanceHeader(l) == l.kind = "header" /\ l.who # "Local Accounts"
NBalanceHeaders == Len(SelectSeq(out, IsBalanceHeader))
NBalanceOk ==
    Cardinality({i \in 1..Len(outcomes) :
                    Prog[calls[i]].op = "get_account_balance" /\ outcomes[i] = "ok"})
\* Balance lines printed after the last header.
TailLines ==
    LET h == {i \in 1..Len(out) : out[i].kind = "header"}
        last == CHOOSE i \in h : \A j \in h : j <= i
    IN  SubSeq(out, last + 1, Len(out))

\* C10: the header of a balance section is printed before the section's first
\* query is issued (while the k-th balance query is outstanding, ceil(k/2)
\* balance headers are on stdout); a balance line is printed exactly when its own query has
\* returned Ok, Alice's before Bob's; so when a balance query fails, stdout ends
\* with the section's header followed by no line (Alice's query failed) or by
\* Alice's line only (Bob's query failed).
C10_HeaderBeforeQuery ==
    LET nq == CountOp("get_account_balance")
    IN  /\ NBalanceHeaders >= (nq + 1) \div 2
        /\ NBalanceHeaders <= nq \div 2 + 1
        /\ (inflight # {} /\ LastCallOp = "get_account_balance")
               => NBalanceHeaders = (nq + 1) \div 2
        /\ Len(BalanceLines) = NBalanceOk
        /\ \A i \in 1..Len(BalanceLines) :
             BalanceLines[i].who = (IF i % 2 = 1 THEN "Alice" ELSE "Bob")
        /\ (Failed /\ LastCallOp = "get_account_balance") =>
             /\ out[Len(out) - Len(TailLines)].kind = "header"
             /\ out[Len(out) - Len(TailLines)].who = FourHeaders[1 + (nq + 1) \div 2]
             /\ IF nq % 2 = 1
                THEN TailLines = <<>>
                ELSE Len(TailLines) = 1 /\ TailLines[1].who = "Alice"

\* Bob's Intermediate query failed: header, Alice's line, nothing else.
C10_Witness ==
    /\ Failed /\ LastCallOp = "get_account_balance"
    /\ CountOp("get_account_balance") = 4
    /\ Len(TailLines) = 1
    /\ NBalanceHeaders = 2

====
